---- MODULE Spec2Model ----
(***************************************************************************)
(* A model of the chromatogram parser of lc_parser:                        *)
(*   parser/chromatogram.py  Chromatogram.__init__, _parse_file,           *)
(*                           detect_peaks, calculate_peak_area,            *)
(*                           calculate_elution_volume                      *)
(*   parser/peak.py          Peak                                          *)
(*                                                                         *)
(* Floating-point numbers are modelled by exact rationals: a number is a   *)
(* record [n, d] (numerator, positive denominator) and a processed signal  *)
(* is a record [num, den] (integer numerators over one common              *)
(* denominator).  The numeric library calls (numpy.polyfit, scipy's        *)
(* savgol_filter, find_peaks, simpson) are modelled by what they compute.  *)
(***************************************************************************)
EXTENDS Integers, Sequences, FiniteSets, TLC

(* ---- bounds of the model ---- *)
\* the longest series (number of samples) a Chromatogram is given
MaxLen == 6
\* raw detector values are drawn from 0..MaxVal
MaxVal == 2
\* the number of detect_peaks calls made on one Chromatogram
MaxCalls == 2

VARIABLES
    pathKind,   \* what the filepath handed to the constructor is
    content,    \* the text of the file, a sequence of tokens
    metadata,   \* Chromatogram.metadata: section -> (key -> value)
    raw_data,   \* Chromatogram.raw_data: the parsed table
    peaks,      \* Chromatogram.peaks: the list of Peak records
    call,       \* the last operation invoked, with the arguments that decide
                \* how it ends
    last_found, \* the Peak records the last detect_peaks call built
    outcome,    \* how that operation ended: [status, stage]
    result,     \* the value it returned
    calls       \* how many detect_peaks calls were made

vars == <<pathKind, content, metadata, raw_data, peaks, call, last_found, outcome, result, calls>>

(* ======================= integer and rational helpers ================== *)

Abs(x) == IF x < 0 THEN -x ELSE x

RECURSIVE Gcd(_, _)
Gcd(a, b) == IF b = 0 THEN Abs(a) ELSE Gcd(b, a % b)

Lcm(a, b) == (a \div Gcd(a, b)) * b

RECURSIVE SumSeq(_)
SumSeq(s) == IF s = <<>> THEN 0 ELSE Head(s) + SumSeq(Tail(s))

RECURSIVE GcdSeq(_)
GcdSeq(s) == IF s = <<>> THEN 0 ELSE Gcd(Head(s), GcdSeq(Tail(s)))

RECURSIVE LcmSeq(_)
LcmSeq(s) == IF s = <<>> THEN 1 ELSE Lcm(Head(s), LcmSeq(Tail(s)))

RECURSIVE Pow(_, _)
Pow(b, e) == IF e = 0 THEN 1 ELSE b * Pow(b, e - 1)

Dot(u, v) == SumSeq([i \in 1..Len(u) |-> u[i] * v[i]])

Max2(a, b) == IF a < b THEN b ELSE a
Min2(a, b) == IF a < b THEN a ELSE b

SetMax(S) == CHOOSE x \in S : \A y \in S : y <= x
SetMin(S) == CHOOSE x \in S : \A y \in S : x <= y

\* the sequence f with every element computed (a tuple)
Vec(f) == f \o <<>>

\* the integer vector v divided by the gcd of its entries
Primitive(v) ==
    LET g == GcdSeq(v)
    IN  IF g = 0 THEN v ELSE Vec([i \in 1..Len(v) |-> v[i] \div g])

\* the rational n/d in lowest terms, d > 0
Frac(n, d) ==
    LET g == Gcd(n, d)
        s == IF d < 0 THEN -1 ELSE 1
    IN  [n |-> (s * n) \div g, d |-> (s * d) \div g]

FracAdd(a, b) == Frac(a.n * b.d + b.n * a.d, a.d * b.d)
FracLeq(a, b) == a.n * b.d <= b.n * a.d

RECURSIVE FracSum(_)
FracSum(s) == IF s = <<>> THEN Frac(0, 1) ELSE FracAdd(Head(s), FracSum(Tail(s)))

\* a signal [num, den] with the common factor of its entries and its
\* denominator removed
ReduceSignal(x) ==
    LET g == Gcd(GcdSeq(x.num), x.den)
    IN  [num |-> Vec([i \in 1..Len(x.num) |-> x.num[i] \div g]),
         den |-> x.den \div g]

\* the elements of the set of integers S in ascending order
RECURSIVE Ascending(_)
Ascending(S) ==
    IF S = {} THEN <<>>
    ELSE LET m == SetMin(S) IN <<m>> \o Ascending(S \ {m})

(* =========================== least squares ============================= *)

\* Integer polynomials q_0..q_k, q_j of degree j, orthogonal over the
\* abscissae t (Gram-Schmidt on 1, t, t^2, ...): a basis of the polynomials
\* of degree <= k in which the least-squares fit is a sum of projections.
RECURSIVE OrthoBasis(_, _)
OrthoBasis(t, k) ==
    IF k = 0 THEN << Vec([i \in 1..Len(t) |-> 1]) >>
    ELSE LET prev == OrthoBasis(t, k - 1)
             b == Vec([i \in 1..Len(t) |-> Pow(t[i], k)])
             norms == Vec([j \in 1..Len(prev) |-> Dot(prev[j], prev[j])])
             L == LcmSeq(norms)
             proj == Vec([j \in 1..Len(prev) |-> Dot(b, prev[j]) * (L \div norms[j])])
             v == Vec([i \in 1..Len(t) |->
                     L * b[i] - SumSeq([j \in 1..Len(prev) |-> proj[j] * prev[j][i]])])
         IN  Append(prev, Primitive(v))

\* The orthogonal projection of the integer vector y on the span of the
\* orthogonal vectors q, as a signal: sum_j (<y,q_j>/<q_j,q_j>) q_j
Project(q, y) ==
    LET norms == Vec([j \in 1..Len(q) |-> Dot(q[j], q[j])])
        L == LcmSeq(norms)
        coef == Vec([j \in 1..Len(q) |-> Dot(y, q[j]) * (L \div norms[j])])
    IN  [num |-> Vec([i \in 1..Len(y) |->
                    SumSeq([j \in 1..Len(q) |-> coef[j] * q[j][i]])]),
         den |-> L]

\* numpy.polyfit(t, y, deg) evaluated at every t (np.poly1d(coeffs)(t)):
\* the least-squares polynomial of degree deg through (t[i], y[i])
PolyFitEval(t, y, deg) == Project(OrthoBasis(t, deg), y)

(* ============================ detect_peaks ============================= *)

\* polyorder of the Savitzky-Golay filter
SavgolPolyOrder == 3

\* values - baseline: the raw values minus the fitted polynomial baseline
Detrend(time, values, deg) ==
    LET b == PolyFitEval(time, values, deg)
    IN  ReduceSignal([num |-> Vec([i \in 1..Len(values) |->
                                     b.den * values[i] - b.num[i]]),
                      den |-> b.den])

\* scipy.signal.savgol_filter(x, w, polyorder=3), mode "interp": each
\* interior sample becomes the value at the window's centre of the cubic
\* least-squares fit of the w samples around it; the first and last w \div 2
\* samples are read off the cubic fitted to the first and last w samples.
SavgolFilter(x, w) ==
    LET n == Len(x.num)
        half == w \div 2
        q == OrthoBasis(Vec([i \in 1..w |-> i]), SavgolPolyOrder)
        fits == Vec([lo \in 1..(n - w + 1) |->
                        Project(q, SubSeq(x.num, lo, lo + w - 1))])
    IN  ReduceSignal([num |-> Vec([i \in 1..n |->
                          IF i <= half THEN fits[1].num[i]
                          ELSE IF i > n - half THEN fits[n - w + 1].num[i - (n - w)]
                          ELSE fits[i - half].num[half + 1]]),
                      den |-> x.den * fits[1].den])

\* scipy's _local_maxima_1d: the interior samples that are strict local
\* maxima; of a flat top, its middle sample (rounded down). 1-based.
LocalMaxima(x) ==
    LET n == Len(x)
        FlatTop(l, r) == /\ x[l - 1] < x[l]
                         /\ \A j \in l..r : x[j] = x[l]
                         /\ x[r + 1] < x[l]
        tops == {pr \in (2..(n - 1)) \X (2..(n - 1)) :
                    pr[1] <= pr[2] /\ FlatTop(pr[1], pr[2])}
    IN  Ascending({((pr[1] - 1) + (pr[2] - 1)) \div 2 + 1 : pr \in tops})

\* scipy's _peak_prominences for the peak at p (1-based), the search
\* confined to wlen \div 2 samples on each side: the bases are the lowest
\* samples reached before the signal rises above the peak, the nearest one
\* on a tie; the prominence is the peak above the higher base.
PeakBases(x, p, wlen) ==
    LET n == Len(x)
        i_min == IF 2 <= wlen THEN Max2(p - wlen \div 2, 1) ELSE 1
        i_max == IF 2 <= wlen THEN Min2(p + wlen \div 2, n) ELSE n
        lo == SetMin({i \in i_min..p : \A j \in i..p : x[j] <= x[p]})
        hi == SetMax({i \in p..i_max : \A j \in p..i : x[j] <= x[p]})
        left_min == SetMin({x[j] : j \in lo..p})
        right_min == SetMin({x[j] : j \in p..hi})
    IN  [left_base |-> SetMax({j \in lo..p : x[j] = left_min}),
         right_base |-> SetMin({j \in p..hi : x[j] = right_min}),
         prominence |-> x[p] - Max2(left_min, right_min)]

\* height=min_height: the sample p of the signal x is at least min_height.
\* min_height is [auto, v]: with auto (min_height None) the threshold is
\* values.mean() + values.std(), and x[p] >= mean + std is decided exactly as
\* x[p] - mean >= 0 and (x[p] - mean)^2 >= variance.
HeightAtLeast(x, p, min_height) ==
    IF min_height.auto
    THEN LET X == Primitive(x.num)
             n == Len(X)
             S == SumSeq(X)
             Q == Dot(X, X)
             dev == n * X[p] - S
         IN  dev >= 0 /\ dev * dev >= n * Q - S * S
    ELSE min_height.v.n * x.den <= x.num[p] * min_height.v.d

\* prominence=prominence: the prominence prom (in units of 1/x.den) is at
\* least the required one
ProminenceAtLeast(x, prom, prominence) ==
    prominence.n * x.den <= prom * prominence.d

\* scipy.signal.find_peaks(values, height, prominence, wlen): the peaks that
\* pass the height and then the prominence condition, in ascending order,
\* each with its height and its bases
FindPeaks(x, min_height, prominence, wlen) ==
    LET tall == SelectSeq(LocalMaxima(x.num),
                          LAMBDA p : HeightAtLeast(x, p, min_height))
        kept == SelectSeq(tall,
                          LAMBDA p : ProminenceAtLeast(
                              x, PeakBases(x.num, p, wlen).prominence, prominence))
    IN  Vec([i \in 1..Len(kept) |->
            LET b == PeakBases(x.num, kept[i], wlen)
            IN  [peak |-> kept[i],
                 peak_height |-> Frac(x.num[kept[i]], x.den),
                 left_base |-> b.left_base,
                 right_base |-> b.right_base]])

\* Peak(left_base_idx, right_base_idx, height, retention_time, data)
Peak(left_base_idx, right_base_idx, height, retention_time, data) ==
    [left_base_idx |-> left_base_idx,
     right_base_idx |-> right_base_idx,
     height |-> height,
     retention_time |-> retention_time,
     data |-> data]

\* self.raw_data.iloc[left : right + 1], left and right counted from 0
PeakData(raw, left, right) ==
    [time |-> SubSeq(raw.time, left + 1, right + 1),
     value |-> SubSeq(raw.value, left + 1, right + 1)]

\* the two checks of sg_window_length against the n samples: the call is
\* rejected when one of them raises
WindowRejected(n, w) == n < w \/ w % 2 = 0

\* the values the peak search runs on: detrended, then smoothed
ProcessedSignal(raw, p) ==
    SavgolFilter(Detrend(raw.time, raw.value, p.poly_degree), p.sg_window_length)

\* the Peak records the loop over find_peaks' result builds, in its order
NewPeaks(raw, p) ==
    LET found == FindPeaks(ProcessedSignal(raw, p), p.min_height,
                           p.prominence, p.peak_window_length)
    IN  Vec([i \in 1..Len(found) |->
            Peak(found[i].left_base - 1,
                 found[i].right_base - 1,
                 found[i].peak_height,
                 raw.time[found[i].peak],
                 PeakData(raw, found[i].left_base - 1, found[i].right_base - 1))])

\* One run of detect_peaks on the table raw with the parameters p: how it
\* ends, where it raised, and the peaks its loop builds.  savgol_filter
\* raises unless polyorder < window_length; find_peaks raises unless
\* 1 < wlen.
DetectOutcome(raw, p) ==
    IF WindowRejected(Len(raw.value), p.sg_window_length)
    THEN [status |-> "ValueError", stage |-> "window_check", found |-> <<>>]
    ELSE IF p.sg_window_length <= SavgolPolyOrder
    THEN [status |-> "ValueError", stage |-> "savgol_filter", found |-> <<>>]
    ELSE IF p.peak_window_length <= 1
    THEN [status |-> "ValueError", stage |-> "find_peaks", found |-> <<>>]
    ELSE [status |-> "ok", stage |-> "done", found |-> NewPeaks(raw, p)]

\* a list that is emptied on entry and filled by the loop
PeaksAfter_ClearedOnEntry(old, r) == r.found

\* self.peaks after the run r: every Peak of a run that reached the loop is
\* appended to the list as it stood
PeaksAfter(old, r) == IF r.status = "ok" THEN old \o r.found ELSE old

(* ---- the parameters detect_peaks is called with ---- *)
AutoHeight == [auto |-> TRUE, v |-> Frac(0, 1)]
GivenHeight(n, d) == [auto |-> FALSE, v |-> Frac(n, d)]

Degrees == {1, 3}
Windows == {3, 4, 5, 7}
Heights == {AutoHeight, GivenHeight(0, 1)}
Prominences == {Frac(1, 2)}
PeakWindows == {1, 100}

DetectParams ==
    [poly_degree : Degrees,
     min_height : Heights,
     prominence : Prominences,
     peak_window_length : PeakWindows,
     sg_window_length : Windows]

NoResult == [kind |-> "none"]
Number(f) == [kind |-> "number", v |-> f]

\* chrom.detect_peaks(**p)
DetectPeaks(p) ==
    /\ calls < MaxCalls
    /\ \E r \in {DetectOutcome(raw_data, p)} :
           /\ outcome' = [status |-> r.status, stage |-> r.stage]
           /\ last_found' = r.found
           /\ peaks' = PeaksAfter(peaks, r)
    /\ call' = [op |-> "detect_peaks",
                poly_degree |-> p.poly_degree,
                sg_window_length |-> p.sg_window_length]
    /\ calls' = calls + 1
    /\ result' = NoResult
    /\ UNCHANGED <<pathKind, content, metadata, raw_data>>

(* ================= calculate_peak_area, elution volume ================= *)

\* the trapezoidal rule over the samples k, k+1, k+2
SimpsonSegment_Trapezoid(y, x, k) ==
    Frac((x[k + 1] - x[k]) * (y[k] + y[k + 1])
         + (x[k + 2] - x[k + 1]) * (y[k + 1] + y[k + 2]), 2)

\* One parabolic segment of scipy's _basic_simpson over the samples k, k+1,
\* k+2 of unequal spacing h0, h1:
\*   hsum/6 * (y0*(2 - h1/h0) + y1*hsum*hsum/(h0*h1) + y2*(2 - h0/h1))
SimpsonSegment(y, x, k) ==
    LET h0 == x[k + 1] - x[k]
        h1 == x[k + 2] - x[k + 1]
        hsum == h0 + h1
    IN  Frac(hsum * (y[k] * (2 * h0 * h1 - h1 * h1)
                     + y[k + 1] * hsum * hsum
                     + y[k + 2] * (2 * h0 * h1 - h0 * h0)),
             6 * h0 * h1)

\* _basic_simpson: the segments that start at the samples 1, 3, ..., <= last
BasicSimpson(y, x, last) ==
    FracSum(Vec([j \in 1..((last + 1) \div 2) |-> SimpsonSegment(y, x, 2 * j - 1)]))

\* scipy.integrate.simpson(y, x) over samples at ascending times x: the
\* composite rule for an odd number of samples (no segment, so 0, for one
\* sample); for an even number the trapezoid for two samples, else the
\* composite rule on all but the last interval plus the correction
\* alpha*y[N] + beta*y[N-1] - eta*y[N-2] for the last one.
Simpson(y, x) ==
    LET N == Len(y)
    IN  IF N % 2 = 1 THEN BasicSimpson(y, x, N - 2)
        ELSE IF N = 2 THEN Frac((x[2] - x[1]) * (y[1] + y[2]), 2)
        ELSE LET h0 == x[N - 1] - x[N - 2]
                 h1 == x[N] - x[N - 1]
                 alpha == Frac((2 * h1 * h1 + 3 * h0 * h1) * y[N], 6 * (h1 + h0))
                 beta == Frac((h1 * h1 + 3 * h0 * h1) * y[N - 1], 6 * h0)
                 eta == Frac(-(h1 * h1 * h1) * y[N - 2], 6 * h0 * (h0 + h1))
             IN  FracSum(<<BasicSimpson(y, x, N - 3), alpha, beta, eta>>)

\* a guard that also rejects a single sample
DataEmpty_OrSingle(data) == Len(data.time) <= 1

\* peak.data.empty
DataEmpty(data) == Len(data.time) = 0

\* a guard that lets a zero flow rate through
FlowRejected_OnlyNegative(flow_rate) == flow_rate.n < 0

\* the guard of calculate_elution_volume: the flow rate is rejected
FlowRejected(flow_rate) == FracLeq(flow_rate, Frac(0, 1))

\* what calculate_peak_area(peak) does: raise on empty data, else integrate
PeakAreaOutcome(peak) ==
    IF DataEmpty(peak.data)
    THEN [status |-> "ValueError", stage |-> "empty_check", value |-> NoResult]
    ELSE [status |-> "ok", stage |-> "done",
          value |-> Number(Simpson(peak.data.value, peak.data.time))]

\* what calculate_elution_volume(peak, flow_rate) does
ElutionVolumeOutcome(peak, flow_rate) ==
    IF FlowRejected(flow_rate)
    THEN [status |-> "ValueError", stage |-> "flow_rate_check", value |-> NoResult]
    ELSE [status |-> "ok", stage |-> "done",
          value |-> Number(Frac(peak.retention_time * flow_rate.n, flow_rate.d))]

FlowRates == {Frac(-1, 1), Frac(0, 1), Frac(1, 2), Frac(1, 1), Frac(2, 1)}

\* chrom.calculate_peak_area(chrom.peaks[i])
CalculatePeakArea(i) ==
    /\ \E r \in {PeakAreaOutcome(peaks[i])} :
           /\ outcome' = [status |-> r.status, stage |-> r.stage]
           /\ result' = r.value
    /\ call' = [op |-> "calculate_peak_area", peak |-> peaks[i]]
    /\ UNCHANGED <<pathKind, content, metadata, raw_data, peaks, last_found, calls>>

\* chrom.calculate_elution_volume(chrom.peaks[i], flow_rate)
CalculateElutionVolume(i, flow_rate) ==
    /\ \E r \in {ElutionVolumeOutcome(peaks[i], flow_rate)} :
           /\ outcome' = [status |-> r.status, stage |-> r.stage]
           /\ result' = r.value
    /\ call' = [op |-> "calculate_elution_volume", peak |-> peaks[i],
                flow_rate |-> flow_rate]
    /\ UNCHANGED <<pathKind, content, metadata, raw_data, peaks, last_found, calls>>

(* ============================== _parse_file ============================ *)
(* The text of a file is a sequence of tokens: the characters "\n", "\t"   *)
(* and ":" and words (runs of other characters, taken whole).              *)

NL == "\n"
TAB == "\t"
COLON == ":"

Whitespace == {NL, TAB}

\* str.strip(): leading and trailing whitespace removed
RECURSIVE LStrip(_)
LStrip(s) == IF s # <<>> /\ Head(s) \in Whitespace THEN LStrip(Tail(s)) ELSE s

RECURSIVE RStrip(_)
RStrip(s) ==
    IF s # <<>> /\ s[Len(s)] \in Whitespace
    THEN RStrip(SubSeq(s, 1, Len(s) - 1)) ELSE s

Strip(s) == RStrip(LStrip(s))

StartsWith(s, sep) == Len(sep) <= Len(s) /\ SubSeq(s, 1, Len(sep)) = sep

\* str.split(sep): the parts of s between the occurrences of sep, found
\* left to right; part is the part being read
RECURSIVE SplitFrom(_, _, _)
SplitFrom(s, sep, part) ==
    IF s = <<>> THEN <<part>>
    ELSE IF StartsWith(s, sep)
    THEN <<part>> \o SplitFrom(SubSeq(s, Len(sep) + 1, Len(s)), sep, <<>>)
    ELSE SplitFrom(Tail(s), sep, Append(part, Head(s)))

Split(s, sep) == SplitFrom(s, sep, <<>>)

\* "Chromatogram Data:\n"
DataMarker == <<"Chromatogram Data", COLON, NL>>

SectionNames ==
    {<<"Injection Information">>, <<"Chromatogram Data Information">>,
     <<"Signal Parameter Information">>, <<"Other">>}

\* self.metadata as __init__ sets it: four sections, each an empty dict
EmptyMetadata == [sec \in SectionNames |-> <<>>]

\* line.endswith(":")
EndsWithColon(line) == line # <<>> /\ line[Len(line)] = COLON

\* The loop over metadata.split("\n") from line i on, current_section and
\* self.metadata as they stand: a line ending in ":" names the current
\* section, any other non-empty line is split at "\t" into key and value
\* (ValueError unless that gives two parts) and stored in
\* self.metadata[current_section] (KeyError if there is no such section).
RECURSIVE WalkMetadata(_, _, _, _)
WalkMetadata(lines, i, current_section, md) ==
    IF i > Len(lines) THEN [status |-> "ok", stage |-> "done", metadata |-> md]
    ELSE IF EndsWithColon(lines[i])
    THEN WalkMetadata(lines, i + 1, SubSeq(lines[i], 1, Len(lines[i]) - 1), md)
    ELSE IF lines[i] # <<>>
    THEN LET kv == Split(lines[i], <<TAB>>)
         IN  IF Len(kv) # 2
             THEN [status |-> "ValueError", stage |-> "metadata_line", metadata |-> md]
             ELSE IF current_section \notin DOMAIN md
             THEN [status |-> "KeyError", stage |-> "metadata_section", metadata |-> md]
             ELSE WalkMetadata(lines, i + 1, current_section,
                      [md EXCEPT ![current_section] = (kv[1] :> kv[2]) @@ @])
    ELSE WalkMetadata(lines, i + 1, current_section, md)

\* pd.read_csv(StringIO(data), sep="\t"): the first non-blank line names the
\* columns, the lines after it are the rows
ReadCsv(data) ==
    LET lines == SelectSeq(Split(data, <<NL>>), LAMBDA l : l # <<>>)
    IN  IF lines = <<>>
        THEN [status |-> "ValueError", columns |-> <<>>, rows |-> <<>>]
        ELSE [status |-> "ok",
              columns |-> Split(lines[1], <<TAB>>),
              rows |-> Tail(lines)]

HasColumn(table, name) == \E c \in 1..Len(table.columns) : table.columns[c] = <<name>>

\* _parse_file on the text of the file: how it ends and, when it returns,
\* the metadata and the table it leaves in the object
ParseFile(text) ==
    LET stripped == Strip(text)
        halves == Split(stripped, DataMarker)
    IN  IF Len(halves) # 2
        THEN [status |-> "ValueError", stage |-> "data_marker"]
        ELSE LET walked == WalkMetadata(Split(halves[1], <<NL>>), 1,
                                        <<"Other">>, EmptyMetadata)
                 table == ReadCsv(halves[2])
             IN  IF walked.status # "ok"
                 THEN [status |-> walked.status, stage |-> walked.stage]
                 ELSE IF table.status # "ok"
                 THEN [status |-> "ValueError", stage |-> "read_csv"]
                 ELSE IF ~(HasColumn(table, "Time (min)") /\ HasColumn(table, "Value (EU)"))
                 THEN [status |-> "ValueError", stage |-> "columns"]
                 ELSE [status |-> "ok", stage |-> "done",
                       metadata |-> walked.metadata,
                       raw_data |-> [columns |-> table.columns, rows |-> table.rows]]

\* Chromatogram(filepath): the checks of the path, then _parse_file; an
\* exception leaves no object
Construct ==
    /\ call.op = "none"
    /\ call' = [op |-> "__init__"]
    /\ \E r \in {IF pathKind = "not_a_path"
                 THEN [status |-> "ValueError", stage |-> "path_type"]
                 ELSE IF pathKind = "missing"
                 THEN [status |-> "FileNotFoundError", stage |-> "is_file"]
                 ELSE ParseFile(content)} :
           /\ outcome' = [status |-> r.status, stage |-> r.stage]
           /\ IF r.status = "ok"
              THEN metadata' = r.metadata /\ raw_data' = r.raw_data
              ELSE UNCHANGED <<metadata, raw_data>>
    /\ UNCHANGED <<pathKind, content, peaks, last_found, result, calls>>

(* ---- the files the constructor is given ---- *)
\* the longest file, in lines
MaxLines == 4

LineKinds ==
    {<<"Chromatogram Data", COLON>>,
     <<"Injection Information", COLON>>,
     <<"Foo", COLON>>,
     <<"k", TAB, "v1">>,
     <<"k", TAB, "v2">>,
     <<"junk">>,
     <<>>,
     <<"Time (min)", TAB, "Value (EU)">>,
     <<"Time (min)", TAB, "Step (s)">>}

\* "\n".join(lines)
RECURSIVE JoinLines(_)
JoinLines(lines) ==
    IF lines = <<>> THEN <<>>
    ELSE IF Len(lines) = 1 THEN lines[1]
    ELSE lines[1] \o <<NL>> \o JoinLines(Tail(lines))

FileTexts ==
    {JoinLines(Vec(ls)) : ls \in UNION {[1..n -> LineKinds] : n \in 1..MaxLines}}

(* ========================= the specifications ========================== *)

\* the series of n samples at times 0, 1, ..., n-1: a flat trace of zeros
\* with at most two samples raised to a value in 1..MaxVal
Series(n) ==
    {[time |-> Vec([i \in 1..n |-> i - 1]), value |-> Vec(v)] :
        v \in {w \in [1..n -> 0..MaxVal] :
                  Cardinality({i \in 1..n : w[i] # 0}) <= 2}}

Init ==
    /\ pathKind = "file"
    /\ content = <<>>
    /\ metadata = EmptyMetadata
    /\ raw_data \in UNION {Series(n) : n \in (MaxLen - 1)..MaxLen}
    /\ peaks = <<>>
    /\ last_found = <<>>
    /\ call = [op |-> "__init__"]
    /\ outcome = [status |-> "ok", stage |-> "done"]
    /\ result = NoResult
    /\ calls = 0

Next == \E p \in DetectParams : DetectPeaks(p)

\* a Chromatogram under repeated peak detection
Spec == Init /\ [][Next]_vars

\* the Peak a test builds from the samples of data: the whole of data, its
\* height and retention time those of the first highest sample
TestPeak(data) ==
    LET n == Len(data.value)
        top == IF n = 0 THEN 0 ELSE SetMax({data.value[i] : i \in 1..n})
        at == IF n = 0 THEN 0 ELSE SetMin({i \in 1..n : data.value[i] = top})
    IN  Peak(0, n - 1, Frac(top, 1), IF n = 0 THEN 1 ELSE data.time[at], data)

\* the longest slice of samples a Peak is built from
MaxSlice == 4

\* the slices of n samples: times ascending from 1 in steps of 1 or 2
Slices(n) ==
    {[time |-> Vec([i \in 1..n |-> 1 + SumSeq(SubSeq(Vec(g), 1, i - 1))]),
      value |-> Vec(v)] :
        g \in [1..(n - 1) -> {1, 2}], v \in [1..n -> 0..MaxVal]}

InitMetrics ==
    /\ pathKind = "file"
    /\ content = <<>>
    /\ metadata = EmptyMetadata
    /\ raw_data = [time |-> <<>>, value |-> <<>>]
    /\ peaks \in {<<TestPeak(d)>> : d \in UNION {Slices(n) : n \in 0..MaxSlice}}
    /\ last_found = <<>>
    /\ call = [op |-> "__init__"]
    /\ outcome = [status |-> "ok", stage |-> "done"]
    /\ result = NoResult
    /\ calls = 0

NextMetrics ==
    \/ \E i \in 1..Len(peaks) : CalculatePeakArea(i)
    \/ \E i \in 1..Len(peaks), f \in FlowRates : CalculateElutionVolume(i, f)

\* the two metrics on a Peak built directly
SpecMetrics == InitMetrics /\ [][NextMetrics]_vars

InitParse ==
    /\ \/ pathKind = "file" /\ content \in FileTexts
       \/ pathKind \in {"not_a_path", "missing"} /\ content = <<>>
    /\ metadata = <<>>
    /\ raw_data = <<>>
    /\ peaks = <<>>
    /\ last_found = <<>>
    /\ call = [op |-> "none"]
    /\ outcome = [status |-> "none", stage |-> "none"]
    /\ result = NoResult
    /\ calls = 0

NextParse == Construct

\* the construction of a Chromatogram from a file
SpecParse == InitParse /\ [][NextParse]_vars

(* ============================ the properties =========================== *)

\* C1: re-invoking detection replaces the peak list: after a successful
\* detect_peaks call the list holds exactly the peaks that call produced.
C1_DetectionReplacesPeakList ==
    (call.op = "detect_peaks" /\ outcome.status = "ok") => peaks = last_found

\* C2: detect_peaks is rejected at the window checks, before any fitting,
\* whenever the smoothing window is even or not strictly shorter than the
\* series.
C2_WindowOddAndShorterThanSeries ==
    (call.op = "detect_peaks"
        /\ (call.sg_window_length % 2 = 0
            \/ call.sg_window_length >= Len(raw_data.value)))
    => (outcome.status = "ValueError" /\ outcome.stage = "window_check")

\* the lines of the file that are the line "Chromatogram Data:"
MarkerLines(text) ==
    LET lines == Split(text, <<NL>>)
    IN  {i \in 1..Len(lines) : lines[i] = <<"Chromatogram Data", COLON>>}

\* C3: a file in which the line "Chromatogram Data:" is absent or occurs
\* more than once is rejected with a ValueError and no Chromatogram is
\* produced.
C3_DataMarkerExactlyOnce ==
    (call.op = "__init__" /\ pathKind = "file"
        /\ Cardinality(MarkerLines(content)) # 1)
    => (outcome.status = "ValueError" /\ metadata = <<>> /\ raw_data = <<>>)

RecognizedTitles ==
    {<<"Injection Information">>, <<"Chromatogram Data Information">>,
     <<"Signal Parameter Information">>}

\* the filing C4 describes, from line i on: a recognized title makes its
\* section the current one, any other header makes "Other" the current one,
\* and a key/value line is stored in the current section
RECURSIVE FiledAsDescribed(_, _, _, _)
FiledAsDescribed(lines, i, section, md) ==
    IF i > Len(lines) THEN md
    ELSE IF EndsWithColon(lines[i])
    THEN LET title == SubSeq(lines[i], 1, Len(lines[i]) - 1)
         IN  FiledAsDescribed(lines, i + 1,
                 IF title \in RecognizedTitles THEN title ELSE <<"Other">>, md)
    ELSE IF lines[i] # <<>>
    THEN LET kv == Split(lines[i], <<TAB>>)
         IN  FiledAsDescribed(lines, i + 1, section,
                 [md EXCEPT ![section] = (kv[1] :> kv[2]) @@ @])
    ELSE FiledAsDescribed(lines, i + 1, section, md)

\* a file whose only headers and key/value lines are well formed: one data
\* marker, every other metadata line a header, a key/value pair or blank,
\* and a table with both required columns
WellFormedFile(text) ==
    LET halves == Split(Strip(text), DataMarker)
    IN  /\ Len(halves) = 2
        /\ \A l \in {Split(halves[1], <<NL>>)[i] :
                        i \in 1..Len(Split(halves[1], <<NL>>))} :
               l = <<>> \/ EndsWithColon(l) \/ Len(Split(l, <<TAB>>)) = 2
        /\ ReadCsv(halves[2]).status = "ok"
        /\ HasColumn(ReadCsv(halves[2]), "Time (min)")
        /\ HasColumn(ReadCsv(halves[2]), "Value (EU)")

\* C4: every key/value pair before the first recognized header or under an
\* unrecognized header is stored in "Other", a pair under a recognized
\* header in that section, and the sections are exactly the fixed four.
C4_PairsFiledBySection ==
    (call.op = "__init__" /\ pathKind = "file" /\ WellFormedFile(content))
    => /\ outcome.status = "ok"
       /\ DOMAIN metadata = SectionNames
       /\ metadata = FiledAsDescribed(
              Split(Split(Strip(content), DataMarker)[1], <<NL>>), 1,
              <<"Other">>, EmptyMetadata)

\* C5: the peak list is ordered by retention time in every state.
C5_PeaksOrderedByTime ==
    \A i \in 1..(Len(peaks) - 1) :
        peaks[i].retention_time <= peaks[i + 1].retention_time

\* C6: the samples a detected peak carries for area integration are the raw
\* values minus the fitted polynomial baseline.
C6_PeakDataBaselineSubtracted ==
    (call.op = "detect_peaks" /\ outcome.status = "ok")
    => LET corrected == Detrend(raw_data.time, raw_data.value, call.poly_degree)
       IN  \A i \in 1..Len(last_found) :
               \A j \in 1..Len(last_found[i].data.value) :
                   last_found[i].data.value[j] * corrected.den
                       = corrected.num[last_found[i].left_base_idx + j]

C8_SimpsonThreePoints ==
    [][(call'.op = "calculate_peak_area"
          /\ Len(call'.peak.data.time) = 3
          /\ call'.peak.data.time[2] - call'.peak.data.time[1]
               = call'.peak.data.time[3] - call'.peak.data.time[2])
       => LET t == call'.peak.data.time
              y == call'.peak.data.value
          IN  /\ outcome'.status = "ok"
              /\ result' = Number(Frac((t[2] - t[1]) * (y[1] + 4 * y[2] + y[3]), 3))
              /\ peaks' = peaks
              /\ call'.peak \in {peaks[i] : i \in 1..Len(peaks)}
              /\ raw_data' = raw_data
              /\ metadata' = metadata]_vars

\* time = [1, 2, 3], value = [0, 2, 0] was integrated to 8/3
C8_Witness ==
    /\ call.op = "calculate_peak_area"
    /\ call.peak.data = [time |-> <<1, 2, 3>>, value |-> <<0, 2, 0>>]
    /\ result = Number(Frac(8, 3))

\* C9: calculate_elution_volume returns retention_time * flow_rate for every
\* flow_rate > 0, fails with a ValueError for every flow_rate <= 0, and
\* leaves the peak and the peak list unchanged either way.
C9_ElutionVolume ==
    [][call'.op = "calculate_elution_volume"
       => LET f == call'.flow_rate
              rt == call'.peak.retention_time
          IN  /\ f.n > 0 => (outcome'.status = "ok"
                             /\ result'.kind = "number"
                             /\ result'.v.n * f.d = rt * f.n * result'.v.d)
              /\ f.n <= 0 => (outcome'.status = "ValueError" /\ result' = NoResult)
              /\ peaks' = peaks
              /\ call'.peak \in {peaks[i] : i \in 1..Len(peaks)}]_vars

\* retention_time 1 at flow rate 1 gave exactly 1
C9_Witness ==
    /\ call.op = "calculate_elution_volume"
    /\ call.peak.retention_time = 1
    /\ call.flow_rate = Frac(1, 1)
    /\ result = Number(Frac(1, 1))

\* C10: a detect_peaks call that fails leaves the peak list, the raw series
\* and the metadata as they were; a call that succeeds changes only the peak
\* list.
C10_FailedDetectionChangesNothing ==
    [][call'.op = "detect_peaks"
       => /\ raw_data' = raw_data
          /\ metadata' = metadata
          /\ outcome'.status # "ok" => peaks' = peaks]_vars

\* a call failed in the peak search on a Chromatogram that held peaks
C10_Witness ==
    /\ call.op = "detect_peaks"
    /\ outcome.status = "ValueError"
    /\ outcome.stage \in {"savgol_filter", "find_peaks"}
    /\ peaks # <<>>

====
